---- MODULE Spec2Model ----
(***************************************************************************)
(* A model of the telegraf "ora" input plugin (src/ora.go, the revision    *)
(* with the per-statement timeout, lines 264-585).                         *)
(*                                                                         *)
(* Go strings are modelled as sequences of one-character strings, so that  *)
(* strings.Split, strings.TrimSpace, strings.HasPrefix and strings.ToLower *)
(* are computed character by character as the library computes them.       *)
(***************************************************************************)
EXTENDS Integers, Sequences, FiniteSets, TLC

\* ------------------------------------------------------------------ bounds

\* The number of goroutines of the host framework that may call Gather.
NCallers == 2
\* The number of Gather invocations the scheduler makes in one behaviour.
MaxCalls == 2
\* The number of rows a result set of the database holds at most.
MaxRows == 1
\* The number of times the statement files change on disk in one behaviour.
MaxChanges == 1
\* The number of name::body records in one generated statement file.
MaxRecs == 2

\* The most rows a result holds when one statement is followed row by row.
MaxResult == 2

\* ------------------------------------------------------- Go string library

\* The nil error, as a value of the error channel.
Nil == [kind |-> "nil"]

\* unicode.IsSpace restricted to the characters the inputs use.
IsSpace(c) == c \in {" ", "\t", "\n", "\r"}

\* strings.Index: the position of the leftmost occurrence of sep in s, 0 if none.
Index(s, sep) ==
  LET hits == {i \in 1..(Len(s) - Len(sep) + 1) : SubSeq(s, i, i + Len(sep) - 1) = sep}
  IN IF hits = {} THEN 0 ELSE CHOOSE i \in hits : \A j \in hits : i <= j

\* strings.Split for a non-empty separator: the pieces between the leftmost
\* non-overlapping occurrences of sep; one piece more than there are occurrences.
RECURSIVE Split(_, _)
Split(s, sep) ==
  LET i == Index(s, sep)
  IN IF i = 0 THEN <<s>>
     ELSE <<SubSeq(s, 1, i - 1)>> \o Split(SubSeq(s, i + Len(sep), Len(s)), sep)

\* strings.TrimSpace: s without its leading and trailing white space.
RECURSIVE TrimLeft(_)
TrimLeft(s) ==
  IF s # <<>> /\ IsSpace(Head(s)) THEN TrimLeft(Tail(s)) ELSE s

RECURSIVE TrimRight(_)
TrimRight(s) ==
  IF s # <<>> /\ IsSpace(s[Len(s)]) THEN TrimRight(SubSeq(s, 1, Len(s) - 1)) ELSE s

TrimSpace(s) == TrimRight(TrimLeft(s))

\* strings.HasPrefix.
HasPrefix(s, p) == Len(s) >= Len(p) /\ SubSeq(s, 1, Len(p)) = p

\* unicode.ToLower on the letters the inputs use; every other character is kept.
LowerOf(c) ==
  CASE c = "A" -> "a" [] c = "B" -> "b" [] c = "C" -> "c" [] c = "D" -> "d"
    [] c = "E" -> "e" [] c = "F" -> "f" [] c = "G" -> "g" [] c = "H" -> "h"
    [] c = "I" -> "i" [] c = "J" -> "j" [] c = "K" -> "k" [] c = "L" -> "l"
    [] c = "M" -> "m" [] c = "N" -> "n" [] c = "O" -> "o" [] c = "P" -> "p"
    [] c = "Q" -> "q" [] c = "R" -> "r" [] c = "S" -> "s" [] c = "T" -> "t"
    [] c = "U" -> "u" [] c = "V" -> "v" [] c = "W" -> "w" [] c = "X" -> "x"
    [] c = "Y" -> "y" [] c = "Z" -> "z" [] OTHER -> c

\* strings.ToLower.
ToLower(s) == [i \in 1..Len(s) |-> LowerOf(s[i])]

\* Concatenation of a sequence of strings.
RECURSIVE Concat(_)
Concat(ss) == IF ss = <<>> THEN <<>> ELSE Head(ss) \o Concat(Tail(ss))

\* ------------------------------------------------------------ the catalog

\* make(map[string][]string): the empty statement catalog.
EmptyMap == <<>>

\* A record of a statement file as its author wrote it: name::body when wf, any
\* other text (raw) when not. The file format is "SQL-name::SQL-Statement;;".
Rec(name, body) ==
  [wf |-> TRUE, name |-> name, body |-> body, raw |-> name \o <<":", ":">> \o body]

RawRec(text) == [wf |-> FALSE, name |-> <<>>, body |-> <<>>, raw |-> text]

\* The text of a file that holds the records recs, each followed by ";;".
RECURSIVE Render(_)
Render(recs) ==
  IF recs = <<>> THEN <<>> ELSE Head(recs).raw \o <<";", ";">> \o Render(Tail(recs))

\* What ioutil.ReadFile finds: a file is a record [ok, text, recs]; ok is FALSE
\* for a file the operating system cannot read, text is what the program reads,
\* and recs remembers the records the text was written from (the program never
\* reads recs).
Unreadable == [ok |-> FALSE, text |-> <<>>, recs |-> <<>>]

FileOf(recs) == [ok |-> TRUE, text |-> Render(recs), recs |-> recs]

\* A map store that replaces the list of k instead of appending to it.
MapReplace(m, k, v) == [x \in (DOMAIN m) \cup {k} |-> IF x = k THEN <<v>> ELSE m[x]]

\* o.sqlmap[k] = append(o.sqlmap[k], v)
MapAppend(m, k, v) ==
  IF k \in DOMAIN m
    THEN [m EXCEPT ![k] = Append(@, v)]
    ELSE [x \in (DOMAIN m) \cup {k} |-> IF x = k THEN <<v>> ELSE m[x]]

\* A loop body that takes the first two parts of a record with more than two.
AddRecordLoose(m, r) ==
  IF Len(TrimSpace(r)) = 0 THEN m
  ELSE LET fs == Split(r, <<":", ":">>)
       IN IF Len(fs) < 2 THEN m
          ELSE LET k == TrimSpace(fs[1])
                   v == TrimSpace(fs[2])
               IN IF Len(k) = 0 \/ Len(v) = 0 THEN m ELSE MapAppend(m, k, v)

\* The body of readfiles' loop over the records of one file.
AddRecord(m, r) ==
  IF Len(TrimSpace(r)) = 0 THEN m
  ELSE LET fs == Split(r, <<":", ":">>)
       IN IF Len(fs) # 2 THEN m
          ELSE LET k == TrimSpace(fs[1])
                   v == TrimSpace(fs[2])
               IN IF Len(k) = 0 \/ Len(v) = 0 THEN m ELSE MapAppend(m, k, v)

RECURSIVE AddRecords(_, _)
AddRecords(m, rs) ==
  IF rs = <<>> THEN m ELSE AddRecords(AddRecord(m, Head(rs)), Tail(rs))

\* A loop over o.Files that stops at the first unreadable file.
RECURSIVE LoadFilesStop(_, _)
LoadFilesStop(m, contents) ==
  IF contents = <<>> THEN m
  ELSE IF ~Head(contents).ok THEN m
  ELSE LoadFilesStop(AddRecords(m, Split(Head(contents).text, <<";", ";">>)), Tail(contents))

\* readfiles' loop over o.Files: an unreadable file is skipped, a readable one is
\* split on ";;" and its records are added in order.
RECURSIVE LoadFiles(_, _)
LoadFiles(m, contents) ==
  IF contents = <<>> THEN m
  ELSE IF ~Head(contents).ok THEN LoadFiles(m, Tail(contents))
  ELSE LoadFiles(AddRecords(m, Split(Head(contents).text, <<";", ";">>)), Tail(contents))

\* readfiles' last loop: every key that starts with "#" is deleted.
DropComments(m) == [k \in {x \in DOMAIN m : ~HasPrefix(x, <<"#">>)} |-> m[k]]

\* The catalog readfiles leaves in o.sqlmap, which held m when it was called.
ReadfilesMap(m, contents) == DropComments(LoadFiles(m, contents))

\* The errors readfiles sends to its error channel: one per unreadable file, in
\* the order of o.Files.
ReadfilesErrors(contents) ==
  LET idx == {i \in 1..Len(contents) : ~contents[i].ok}
      RECURSIVE Up(_)
      Up(i) == IF i > Len(contents) THEN <<>>
               ELSE (IF i \in idx THEN <<[kind |-> "read", file |-> i]>> ELSE <<>>) \o Up(i + 1)
  IN Up(1)

\* errchan.ErrChan.Error: the non-nil errors of the channel, in the order they
\* were sent, combined into one error; nil when there is none.
RECURSIVE NonNil(_)
NonNil(buf) ==
  IF buf = <<>> THEN <<>>
  ELSE (IF Head(buf) = Nil THEN <<>> ELSE <<Head(buf)>>) \o NonNil(Tail(buf))

\* The combined error is the sequence of its entries; the nil error is <<>>.
ErrChanError(buf) == NonNil(buf)

\* --------------------------------------------------------------- the URL

\* o.u before tagUrl has run: the nil pointer.
NilUrl ==
  [set |-> FALSE, all |-> <<>>, user |-> <<>>, passwd |-> <<>>, host |-> <<>>,
   port |-> <<>>, service |-> <<>>, instance |-> <<>>]

\* tagUrl: [fatal |-> TRUE] when a split has the wrong number of parts (log.Fatalf
\* ends the process), else the url record it stores in o.u.
UrlFatal == [fatal |-> TRUE, u |-> NilUrl]

\* A tagUrl whose last check lets a remainder of more than three parts through.
tagUrlLoose(url) ==
  LET s1 == Split(url, <<"@">>)
  IN IF Len(s1) # 2 THEN UrlFatal
     ELSE LET s1_0 == Split(s1[1], <<"/">>)
          IN IF Len(s1_0) # 2 THEN UrlFatal
             ELSE LET s1_1 == Split(s1[2], <<":">>)
                  IN IF Len(s1_1) # 2 THEN UrlFatal
                     ELSE LET s1_1_1 == Split(s1_1[2], <<"/">>)
                          IN IF Len(s1_1_1) < 3 THEN UrlFatal
                             ELSE [fatal |-> FALSE,
                                   u |-> [set |-> TRUE,
                                          all |-> url,
                                          user |-> s1_0[1],
                                          passwd |-> s1_0[2],
                                          host |-> s1_1[1],
                                          port |-> s1_1_1[1],
                                          service |-> s1_1_1[2],
                                          instance |-> s1_1_1[3]]]

tagUrl(url) ==
  LET s1 == Split(url, <<"@">>)
  IN IF Len(s1) # 2 THEN UrlFatal
     ELSE LET s1_0 == Split(s1[1], <<"/">>)
          IN IF Len(s1_0) # 2 THEN UrlFatal
             ELSE LET s1_1 == Split(s1[2], <<":">>)
                  IN IF Len(s1_1) # 2 THEN UrlFatal
                     ELSE LET s1_1_1 == Split(s1_1[2], <<"/">>)
                          IN IF Len(s1_1_1) # 3 THEN UrlFatal
                             ELSE [fatal |-> FALSE,
                                   u |-> [set |-> TRUE,
                                          all |-> url,
                                          user |-> s1_0[1],
                                          passwd |-> s1_0[2],
                                          host |-> s1_1[1],
                                          port |-> s1_1_1[1],
                                          service |-> s1_1_1[2],
                                          instance |-> s1_1_1[3]]]

\* ------------------------------------------------------------ parseRow

\* The values database/sql hands to parseRow, as a tagged union: t is the Go
\* type, s the text of a string, []byte or ora.OCINum, n the number, b the bool.
VString(x)  == [t |-> "string",  s |-> x,    n |-> 0, b |-> FALSE]
VBytes(x)   == [t |-> "bytes",   s |-> x,    n |-> 0, b |-> FALSE]
VInt64(x)   == [t |-> "int64",   s |-> <<>>, n |-> x, b |-> FALSE]
VFloat64(x) == [t |-> "float64", s |-> <<>>, n |-> x, b |-> FALSE]
VOCINum(x)  == [t |-> "OCINum",  s |-> x,    n |-> 0, b |-> FALSE]
VBool(x)    == [t |-> "bool",    s |-> <<>>, n |-> 0, b |-> x]
VNull       == [t |-> "nil",     s |-> <<>>, n |-> 0, b |-> FALSE]
VTime       == [t |-> "time",    s |-> <<>>, n |-> 0, b |-> FALSE]

\* m[k] = v on a Go map.
MapSet(m, k, v) == [x \in (DOMAIN m) \cup {k} |-> IF x = k THEN v ELSE m[x]]

DigitValue(c) ==
  CASE c = "0" -> 0 [] c = "1" -> 1 [] c = "2" -> 2 [] c = "3" -> 3 [] c = "4" -> 4
    [] c = "5" -> 5 [] c = "6" -> 6 [] c = "7" -> 7 [] c = "8" -> 8 [] c = "9" -> 9
    [] OTHER -> -1

RECURSIVE DigitsValue(_, _)
DigitsValue(s, acc0) ==
  IF s = <<>> THEN acc0 ELSE DigitsValue(Tail(s), acc0 * 10 + DigitValue(Head(s)))

IsDigits(s) == s # <<>> /\ \A i \in 1..Len(s) : DigitValue(s[i]) >= 0

\* strconv.ParseFloat(s, 64) on the texts the inputs use (whole numbers, with an
\* optional sign): [n, err]; on a syntax error the value returned is 0.
ParseFloat(s) ==
  IF IsDigits(s) THEN [n |-> DigitsValue(s, 0), err |-> FALSE]
  ELSE IF s # <<>> /\ Head(s) = "-" /\ IsDigits(Tail(s))
    THEN [n |-> 0 - DigitsValue(Tail(s), 0), err |-> FALSE]
  ELSE [n |-> 0, err |-> TRUE]

\* fmt.Sprintf("%b", val) for a bool: %b is no verb of bool, so fmt writes its
\* bad-verb form, %!b(bool=true) or %!b(bool=false).
SprintfB(b) ==
  <<"%", "!", "b", "(", "b", "o", "o", "l", "=">>
    \o (IF b THEN <<"t", "r", "u", "e">> ELSE <<"f", "a", "l", "s", "e">>)
    \o <<")">>

Str_NULL == <<"N", "U", "L", "L">>
Str_func == <<"f", "u", "n", "c">>
Str_ora == <<"o", "r", "a">>
Str_orahost == <<"o", "r", "a", "h", "o", "s", "t">>
Str_oraport == <<"o", "r", "a", "p", "o", "r", "t">>
Str_oraservice == <<"o", "r", "a", "s", "e", "r", "v", "i", "c", "e">>
Str_orainstance == <<"o", "r", "a", "i", "n", "s", "t", "a", "n", "c", "e">>

\* The type switch of parseRow on one column: the tags and fields after it.
ParseColumn(tf, col, v) ==
  LET k == ToLower(col)
  IN CASE v.t = "string" ->
            [tf EXCEPT !.tags = MapSet(@, k, IF v.s = <<>> THEN Str_NULL ELSE v.s)]
       [] v.t = "bytes" -> [tf EXCEPT !.tags = MapSet(@, k, v.s)]
       [] v.t \in {"int64", "int32", "int", "float32", "float64"} ->
            [tf EXCEPT !.fields = MapSet(@, k, [t |-> v.t, n |-> v.n])]
       [] v.t = "OCINum" ->
            [tf EXCEPT !.fields = MapSet(@, k, [t |-> "float64", n |-> ParseFloat(v.s).n])]
       [] v.t = "bool" -> [tf EXCEPT !.tags = MapSet(@, k, SprintfB(v.b))]
       [] OTHER -> tf

\* Identity tags that give way to a tag the row has set under the same name.
UrlTagsKeep(tags, url) ==
  LET all4 == (Str_orahost :> url.host) @@ (Str_oraport :> url.port)
                @@ (Str_oraservice :> url.service) @@ (Str_orainstance :> url.instance)
  IN [k \in (DOMAIN tags) \cup {y \in DOMAIN all4 : all4[y] # <<>>} |->
        IF k \in DOMAIN tags THEN tags[k] ELSE all4[k]]

\* The four identity tags parseRow adds after every column.
UrlTags(tags, url) ==
  LET t1 == IF Len(url.host) > 0 THEN MapSet(tags, Str_orahost, url.host) ELSE tags
      t2 == IF Len(url.port) > 0 THEN MapSet(t1, Str_oraport, url.port) ELSE t1
      t3 == IF Len(url.service) > 0 THEN MapSet(t2, Str_oraservice, url.service) ELSE t2
  IN IF Len(url.instance) > 0 THEN MapSet(t3, Str_orainstance, url.instance) ELSE t3

\* parseRow: rowData is the map of the row's columns, order the order in which
\* the range over the map visits them (Go leaves it unspecified).
RECURSIVE ParseLoop(_, _, _, _)
ParseLoop(tf, rowData, order, url) ==
  IF order = <<>> THEN tf
  ELSE LET tf1 == ParseColumn(tf, Head(order), rowData[Head(order)])
       IN ParseLoop([tf1 EXCEPT !.tags = UrlTags(@, url)], rowData, Tail(order), url)

parseRow(rowData, order, url) ==
  ParseLoop([tags |-> <<>>, fields |-> <<>>], rowData, order, url)

\* The orders in which a range over the map m may visit its keys.
Orders(m) ==
  {o \in [1..Cardinality(DOMAIN m) -> DOMAIN m] : \A i, j \in DOMAIN o : i # j => o[i] # o[j]}

\* What gatherInfo passes to acc.AddFields for one row.
Metric(rowData, order, url, tag) ==
  LET tf == parseRow(rowData, order, url)
  IN [name |-> Str_ora, fields |-> tf.fields, tags |-> MapSet(tf.tags, Str_func, tag)]

\* ------------------------------------------------------------- the state

VARIABLES
  Url,      \* o.Url, the configured connection string
  disk,     \* the files named by o.Files, in their order: what ReadFile finds
  dbrow,    \* the first row of the database's result (rowData after rowset.Scan)
  nrows,    \* the number of rows the database's result holds
  calls,    \* how many times Gather has been called
  changes,  \* how many times the files have changed on disk
  exited,   \* log.Fatalf has ended the process
  mutex,    \* o.Mutex: the caller that holds it, 0 when unlocked
  sqlmap,   \* o.sqlmap
  u,        \* o.u
  pc,       \* per caller: where its Gather invocation stands
  ret,      \* per caller: the value its Gather returns
  conn,     \* per caller: Gather's conn ("none", "open", "closed")
  errChan,  \* per caller: Gather's errChan [cap, buf, closed]
  gor,      \* per caller: the goroutines Gather started, by statement instance
  acc,      \* per caller: the rows given to acc.AddFields, by statement instance
  loads     \* history: per readfiles call so far, the files it found and its catalog

vars == <<Url, disk, dbrow, nrows, calls, changes, exited, mutex, sqlmap, u, pc, ret,
          conn, errChan, gor, acc, loads>>

Callers == 1..NCallers

\* The statement instances of a catalog: <<name, position in the name's list>>.
InstanceSet(m) == UNION {{<<k, j>> : j \in 1..Len(m[k])} : k \in DOMAIN m}

\* var ln int; for _, v := range o.sqlmap { ln = ln + len(v) }
RECURSIVE SumLen(_, _)
SumLen(m, keys) ==
  IF keys = {} THEN 0
  ELSE LET k == CHOOSE x \in keys : TRUE IN Len(m[k]) + SumLen(m, keys \ {k})

\* An aggregator with one slot too few.
NewErrChanShort(n) == [cap |-> IF n > 0 THEN n - 1 ELSE 0, buf |-> <<>>, closed |-> FALSE]

\* errchan.New(n)
NewErrChan(n) == [cap |-> n, buf |-> <<>>, closed |-> FALSE]

NoChan == NewErrChan(0)

\* A goroutine of Gather: pc is its position, timer the state of its context's
\* deadline, n the number of rows rowset.Scan has read, res what gatherInfo
\* returned, sent what it sent to errChan.C; late records that the deadline
\* expired while gatherInfo was still running.
\* It starts with ctx, _ := context.WithTimeout(...): its deadline is running.
NewGoroutine ==
  [pc |-> "query", timer |-> "armed", late |-> FALSE, n |-> 0, res |-> Nil, sent |-> "none"]

\* The errors of Gather and gatherInfo: fmt.Errorf with host, instance and tag.
StmtError(kind, url, tag) ==
  [kind |-> kind, host |-> url.host, instance |-> url.instance, tag |-> tag]

ReadError(i) == [kind |-> "read", file |-> i]

OpenError == [kind |-> "open"]

\* A lock that never blocks.
CanLockAlways == TRUE

\* o.Lock() returns only when no caller holds the mutex.
CanLock == mutex = 0

\* --------------------------------------------------------------- Gather

\* The framework calls Gather: the caller blocks in o.Lock().
Call(c) ==
  /\ ~exited
  /\ pc[c] = "idle"
  /\ calls < MaxCalls
  /\ calls' = calls + 1
  /\ pc' = [pc EXCEPT ![c] = "lock"]
  /\ ret' = [ret EXCEPT ![c] = <<>>]
  /\ UNCHANGED <<Url, disk, dbrow, nrows, changes, exited, mutex, sqlmap, u, conn, errChan, gor, acc, loads>>

\* o.Lock()
Lock(c) ==
  /\ ~exited
  /\ pc[c] = "lock"
  /\ CanLock
  /\ mutex' = c
  /\ pc' = [pc EXCEPT ![c] = "readfiles"]
  /\ UNCHANGED <<Url, disk, dbrow, nrows, calls, changes, exited, sqlmap, u, ret, conn, errChan, gor, acc, loads>>

\* A Gather that lets readfiles append to the catalog of the call before.
KeepMap(old) == old

\* The map readfiles appends to: Gather has just replaced o.sqlmap by an empty map.
FreshMap(old) == EmptyMap

\* o.sqlmap = make(...); err := o.readfiles(); if err != nil { return err }
Readfiles(c) ==
  /\ ~exited
  /\ pc[c] = "readfiles"
  /\ sqlmap' = ReadfilesMap(FreshMap(sqlmap), disk)
  /\ LET err == ErrChanError(ReadfilesErrors(disk))
     IN IF err # <<>>
          THEN /\ ret' = [ret EXCEPT ![c] = err]
               /\ pc' = [pc EXCEPT ![c] = "unlock"]
          ELSE /\ pc' = [pc EXCEPT ![c] = "open"]
               /\ UNCHANGED ret
  /\ loads' = Append(loads, [files |-> disk, catalog |-> sqlmap'])
  /\ UNCHANGED <<Url, disk, dbrow, nrows, calls, changes, exited, mutex, u, conn, errChan, gor, acc>>

\* conn, err := sql.Open("ora", o.Url); if err != nil { return err }; defer conn.Close()
Open(c) ==
  /\ ~exited
  /\ pc[c] = "open"
  /\ \E ok \in BOOLEAN :
       IF ok
         THEN /\ conn' = [conn EXCEPT ![c] = "open"]
              /\ pc' = [pc EXCEPT ![c] = "tagUrl"]
              /\ UNCHANGED ret
         ELSE /\ ret' = [ret EXCEPT ![c] = <<OpenError>>]
              /\ pc' = [pc EXCEPT ![c] = "unlock"]
              /\ UNCHANGED conn
  /\ UNCHANGED <<Url, disk, dbrow, nrows, calls, changes, exited, mutex, sqlmap, u, errChan, gor, acc, loads>>

\* o.tagUrl(), then ln and errChan := errchan.New(ln)
TagUrl(c) ==
  /\ ~exited
  /\ pc[c] = "tagUrl"
  /\ LET r == tagUrl(Url)
     IN IF r.fatal
          THEN /\ exited' = TRUE
               /\ UNCHANGED <<u, pc, errChan, gor, acc>>
          ELSE /\ u' = r.u
               /\ errChan' = [errChan EXCEPT ![c] = NewErrChan(SumLen(sqlmap, DOMAIN sqlmap))]
               /\ gor' = [gor EXCEPT ![c] = <<>>]
               /\ acc' = [acc EXCEPT ![c] = [i \in InstanceSet(sqlmap) |-> <<>>]]
               /\ pc' = [pc EXCEPT ![c] = "spawn"]
               /\ UNCHANGED exited
  /\ UNCHANGED <<Url, disk, dbrow, nrows, calls, changes, mutex, sqlmap, ret, conn, loads>>

\* One turn of the loops over o.sqlmap: wg.Add(1); go func(conn, tag, s) {...}.
\* The statements of one name are started in their order.
Spawn(c, i) ==
  /\ ~exited
  /\ pc[c] = "spawn"
  /\ i \in InstanceSet(sqlmap) \ DOMAIN gor[c]
  /\ \A j \in 1..(i[2] - 1) : <<i[1], j>> \in DOMAIN gor[c]
  /\ gor' = [gor EXCEPT ![c] = MapSet(@, i, NewGoroutine)]
  /\ UNCHANGED <<Url, disk, dbrow, nrows, calls, changes, exited, mutex, sqlmap, u, pc, ret, conn, errChan, acc, loads>>

\* The loops are over: Gather reaches wg.Wait().
SpawnDone(c) ==
  /\ ~exited
  /\ pc[c] = "spawn"
  /\ DOMAIN gor[c] = InstanceSet(sqlmap)
  /\ pc' = [pc EXCEPT ![c] = "wait"]
  /\ UNCHANGED <<Url, disk, dbrow, nrows, calls, changes, exited, mutex, sqlmap, u, ret, conn, errChan, gor, acc, loads>>

\* A wait that returns at once.
WaitOverNone(g) == TRUE

\* A wait that returns when one goroutine is done.
WaitOverOne(g) == \E i \in DOMAIN g : g[i].pc = "done"

\* wg.Wait() returns once every goroutine has run wg.Done().
WaitOver(g) == \A i \in DOMAIN g : g[i].pc = "done"

\* wg.Wait(); return errChan.Error()
Wait(c) ==
  /\ ~exited
  /\ pc[c] = "wait"
  /\ WaitOver(gor[c])
  /\ errChan' = [errChan EXCEPT ![c].closed = TRUE]
  /\ ret' = [ret EXCEPT ![c] = ErrChanError(errChan[c].buf)]
  /\ pc' = [pc EXCEPT ![c] = "close"]
  /\ UNCHANGED <<Url, disk, dbrow, nrows, calls, changes, exited, mutex, sqlmap, u, conn, gor, acc, loads>>

\* A return that leaves the connection open.
CloseSkip(c) ==
  /\ ~exited
  /\ pc[c] = "close"
  /\ pc' = [pc EXCEPT ![c] = "unlock"]
  /\ UNCHANGED <<Url, disk, dbrow, nrows, calls, changes, exited, mutex, sqlmap, u, ret, conn, errChan, gor, acc, loads>>

\* The deferred conn.Close()
Close(c) ==
  /\ ~exited
  /\ pc[c] = "close"
  /\ conn' = [conn EXCEPT ![c] = "closed"]
  /\ pc' = [pc EXCEPT ![c] = "unlock"]
  /\ UNCHANGED <<Url, disk, dbrow, nrows, calls, changes, exited, mutex, sqlmap, u, ret, errChan, gor, acc, loads>>

\* The deferred o.Unlock(); Gather has returned ret[c], and its locals are gone.
Unlock(c) ==
  /\ ~exited
  /\ pc[c] = "unlock"
  /\ mutex' = 0
  /\ pc' = [pc EXCEPT ![c] = "idle"]
  /\ conn' = [conn EXCEPT ![c] = "none"]
  /\ errChan' = [errChan EXCEPT ![c] = NoChan]
  /\ gor' = [gor EXCEPT ![c] = <<>>]
  /\ acc' = [acc EXCEPT ![c] = <<>>]
  /\ ret' = [ret EXCEPT ![c] = <<>>]
  /\ UNCHANGED <<Url, disk, dbrow, nrows, calls, changes, exited, sqlmap, u, loads>>

\* ------------------------------------------------- the goroutines of Gather

\* gatherInfo is still running in goroutine g.
Running(g) == g.pc \in {"query", "rows", "hung"}

\* The deadline of goroutine i expires: ctx.Done() becomes ready.
TimerFire(c, i) ==
  /\ ~exited
  /\ i \in DOMAIN gor[c]
  /\ gor[c][i].timer = "armed"
  /\ gor' = [gor EXCEPT ![c][i].timer = "fired", ![c][i].late = Running(gor[c][i])]
  /\ UNCHANGED <<Url, disk, dbrow, nrows, calls, changes, exited, mutex, sqlmap, u, pc, ret, conn, errChan, acc, loads>>

\* gatherInfo: rowset, err := conn.Query(sta). The database answers with an
\* error, with a result set, or not at all.
GoQuery(c, i) ==
  /\ ~exited
  /\ i \in DOMAIN gor[c]
  /\ gor[c][i].pc = "query"
  /\ \E answer \in {"error", "rowset", "never"} :
       gor' = [gor EXCEPT ![c][i] =
                 CASE answer = "error" ->
                        [@ EXCEPT !.pc = "select", !.res = StmtError("query", u, i[1])]
                   [] answer = "rowset" -> [@ EXCEPT !.pc = "rows"]
                   [] OTHER -> [@ EXCEPT !.pc = "hung"]]
  /\ UNCHANGED <<Url, disk, dbrow, nrows, calls, changes, exited, mutex, sqlmap, u, pc, ret, conn, errChan, acc, loads>>

\* The result of a query: its k-th row is dbrow with k - 1 added to every int64
\* column, so that the rows of one result differ.
RowAt(row, k) ==
  [col \in DOMAIN row |->
     IF row[col].t = "int64" THEN VInt64(row[col].n + k - 1) ELSE row[col]]

\* A sink that keeps the latest row only.
AddFieldsLast(emitted, m) == <<m>>

\* acc.AddFields: the sink receives the metric after those it has.
AddFields(emitted, m) == Append(emitted, m)

\* gatherInfo: one turn of for rowset.Next() with a row that scans: parseRow,
\* tags["func"] = tag, acc.AddFields("ora", fields, tags).
GoRow(c, i) ==
  /\ ~exited
  /\ i \in DOMAIN gor[c]
  /\ gor[c][i].pc = "rows"
  /\ gor[c][i].n < nrows
  /\ gor' = [gor EXCEPT ![c][i].n = @ + 1]
  /\ \E order \in Orders(dbrow) :
       acc' = [acc EXCEPT ![c][i] =
                 AddFields(@, Metric(RowAt(dbrow, gor[c][i].n + 1), order, u, i[1]))]
  /\ UNCHANGED <<Url, disk, dbrow, nrows, calls, changes, exited, mutex, sqlmap, u, pc, ret, conn, errChan, loads>>

\* gatherInfo: rowset.Scan fails on the next row: return the Scan error.
GoScanError(c, i) ==
  /\ ~exited
  /\ i \in DOMAIN gor[c]
  /\ gor[c][i].pc = "rows"
  /\ gor[c][i].n < nrows
  /\ gor' = [gor EXCEPT ![c][i].pc = "select", ![c][i].res = StmtError("scan", u, i[1])]
  /\ UNCHANGED <<Url, disk, dbrow, nrows, calls, changes, exited, mutex, sqlmap, u, pc, ret, conn, errChan, acc, loads>>

\* gatherInfo: rowset.Next() is false, the result has no more rows: return nil.
GoRowsEnd(c, i) ==
  /\ ~exited
  /\ i \in DOMAIN gor[c]
  /\ gor[c][i].pc = "rows"
  /\ gor[c][i].n = nrows
  /\ gor' = [gor EXCEPT ![c][i].pc = "select", ![c][i].res = Nil]
  /\ UNCHANGED <<Url, disk, dbrow, nrows, calls, changes, exited, mutex, sqlmap, u, pc, ret, conn, errChan, acc, loads>>

\* A send to errChan.C can proceed: the buffer has room.
CanSend(ch) == Len(ch.buf) < ch.cap

\* select, case errChan.C <- (the value gatherInfo returned); then wg.Done().
GoSendResult(c, i) ==
  /\ ~exited
  /\ i \in DOMAIN gor[c]
  /\ gor[c][i].pc = "select"
  /\ CanSend(errChan[c])
  /\ errChan' = [errChan EXCEPT ![c].buf = Append(@, gor[c][i].res)]
  /\ gor' = [gor EXCEPT ![c][i].pc = "done", ![c][i].sent = "result", ![c][i].timer = "none"]
  /\ UNCHANGED <<Url, disk, dbrow, nrows, calls, changes, exited, mutex, sqlmap, u, pc, ret, conn, acc, loads>>

\* A deadline that interrupts gatherInfo: the timeout is sent while it runs.
GoSendTimeoutPreempt(c, i) ==
  /\ ~exited
  /\ i \in DOMAIN gor[c]
  /\ gor[c][i].pc \in {"query", "rows", "hung", "select"}
  /\ gor[c][i].timer = "fired"
  /\ CanSend(errChan[c])
  /\ errChan' = [errChan EXCEPT ![c].buf = Append(@, StmtError("timeout", u, i[1]))]
  /\ gor' = [gor EXCEPT ![c][i].pc = "done", ![c][i].sent = "timeout", ![c][i].timer = "none"]
  /\ UNCHANGED <<Url, disk, dbrow, nrows, calls, changes, exited, mutex, sqlmap, u, pc, ret, conn, acc, loads>>

\* select, case <-ctx.Done(): errChan.C <- the timeout error; then wg.Done().
GoSendTimeout(c, i) ==
  /\ ~exited
  /\ i \in DOMAIN gor[c]
  /\ gor[c][i].pc = "select"
  /\ gor[c][i].timer = "fired"
  /\ CanSend(errChan[c])
  /\ errChan' = [errChan EXCEPT ![c].buf = Append(@, StmtError("timeout", u, i[1]))]
  /\ gor' = [gor EXCEPT ![c][i].pc = "done", ![c][i].sent = "timeout", ![c][i].timer = "none"]
  /\ UNCHANGED <<Url, disk, dbrow, nrows, calls, changes, exited, mutex, sqlmap, u, pc, ret, conn, acc, loads>>

\* ------------------------------------------------------- the environment

Str_s1 == <<"s", "1">>
Str_s2 == <<"s", "2">>
Str_s3 == <<"s", "3">>

Str_cpu == <<"c", "p", "u">>
Str_off == <<"#", "o", "f", "f">>

\* Statement files: "cpu::s1;;", " cpu :: s2 ;;#off::s3;;" and "#off::s3;;".
FileA == FileOf(<<Rec(Str_cpu, Str_s1)>>)

FileB == FileOf(<<Rec(<<" ">> \o Str_cpu \o <<" ">>, <<" ">> \o Str_s2 \o <<" ">>), Rec(Str_off, Str_s3)>>)

FileC == FileOf(<<Rec(Str_off, Str_s3)>>)

\* o.Files names two files; what they may hold: both readable, with two
\* statements under one name or with one; the first unreadable; both unreadable.
DiskStates ==
  {<<FileA, FileB>>, <<FileA, FileC>>, <<Unreadable, FileB>>, <<Unreadable, Unreadable>>}

\* The statement files change on disk. Only readfiles reads them: a change while
\* an invocation is past readfiles shows in no later step of that invocation, and
\* is taken when the invocation has returned.
DiskChange ==
  /\ ~exited
  /\ \A c \in Callers : pc[c] \in {"idle", "lock", "readfiles"}
  /\ changes < MaxChanges
  /\ changes' = changes + 1
  /\ \E d \in DiskStates : d # disk /\ disk' = d
  /\ UNCHANGED <<Url, dbrow, nrows, calls, exited, mutex, sqlmap, u, pc, ret, conn, errChan, gor, acc, loads>>

\* "scott/tiger@10.0.0.5:1521/orcl/orcl1"
ScottUrl ==
  <<"s", "c", "o", "t", "t", "/", "t", "i", "g", "e", "r", "@",
    "1", "0", ".", "0", ".", "0", ".", "5", ":", "1", "5", "2", "1", "/",
    "o", "r", "c", "l", "/", "o", "r", "c", "l", "1">>

\* The url of sampleConfig: "perfstat/perfstat@localhost:1521/orcl"
SampleUrl ==
  <<"p", "e", "r", "f", "s", "t", "a", "t", "/", "p", "e", "r", "f", "s", "t", "a", "t", "@",
    "l", "o", "c", "a", "l", "h", "o", "s", "t", ":", "1", "5", "2", "1", "/",
    "o", "r", "c", "l">>

\* The row {VALUE: int64(42), NAME: "", FLAG: true}.
ExampleRow ==
  (<<"V", "A", "L", "U", "E">> :> VInt64(42))
    @@ (<<"N", "A", "M", "E">> :> VString(<<>>))
    @@ (<<"F", "L", "A", "G">> :> VBool(TRUE))

\* The state of an Ora the framework has just built from its configuration.
InitOra ==
  /\ calls = 0
  /\ changes = 0
  /\ exited = FALSE
  /\ mutex = 0
  /\ sqlmap = EmptyMap
  /\ u = NilUrl
  /\ pc = [c \in Callers |-> "idle"]
  /\ ret = [c \in Callers |-> <<>>]
  /\ conn = [c \in Callers |-> "none"]
  /\ errChan = [c \in Callers |-> NoChan]
  /\ gor = [c \in Callers |-> <<>>]
  /\ acc = [c \in Callers |-> <<>>]
  /\ loads = <<>>

Init ==
  /\ Url \in {ScottUrl, SampleUrl}
  /\ disk \in DiskStates
  /\ dbrow = ExampleRow
  /\ nrows \in 0..MaxRows
  /\ InitOra

\* Every statement instance the files on disk can give rise to.
AllInstances == UNION {InstanceSet(ReadfilesMap(EmptyMap, d)) : d \in DiskStates}

\* A step of the goroutine of instance i.
GoroutineStep(c, i) ==
  \/ TimerFire(c, i)
  \/ GoQuery(c, i)
  \/ GoRow(c, i)
  \/ GoScanError(c, i)
  \/ GoRowsEnd(c, i)
  \/ GoSendResult(c, i)
  \/ GoSendTimeout(c, i)

\* A step of caller c in Gather.
GatherStep(c) ==
  \/ Call(c)
  \/ Lock(c)
  \/ Readfiles(c)
  \/ Open(c)
  \/ TagUrl(c)
  \/ \E i \in AllInstances : Spawn(c, i)
  \/ SpawnDone(c)
  \/ Wait(c)
  \/ Close(c)
  \/ Unlock(c)

Next ==
  \/ \E c \in Callers : GatherStep(c)
  \/ \E c \in Callers : \E i \in AllInstances : GoroutineStep(c, i)

\* Gather called by concurrent callers.
Spec == Init /\ [][Next]_vars

\* ------------------------------------------- one caller, chosen inputs

\* The framework calls Gather from one goroutine only.
NextOne ==
  \/ GatherStep(1)
  \/ \E i \in AllInstances : GoroutineStep(1, i)

\* Gather called again and again by one caller while the files change.
NextCycles == NextOne \/ DiskChange

SpecCycles == Init /\ [][NextCycles]_vars

InitGatherInfo ==
  /\ Url = ScottUrl
  /\ disk = <<FileA, FileC>>
  /\ dbrow = ExampleRow
  /\ nrows \in 0..MaxResult
  /\ InitOra

\* Gather with one statement, on results of every length up to MaxResult.
SpecGatherInfo == InitGatherInfo /\ [][NextOne]_vars

\* n copies of the character ch.
RECURSIVE Rep(_, _)
Rep(ch, n) == IF n = 0 THEN <<>> ELSE <<ch>> \o Rep(ch, n - 1)

\* "u/p@h:1/s/i" with each of its five delimiters written d times.
UrlVariant(d1, d2, d3, d4, d5) ==
  <<"u">> \o Rep("/", d1) \o <<"p">> \o Rep("@", d2) \o <<"h">> \o Rep(":", d3)
    \o <<"1">> \o Rep("/", d4) \o <<"s">> \o Rep("/", d5) \o <<"i">>

\* Connection strings: the two of the documentation, "u/p@h:1/s/i" with every
\* delimiter left out, written once or written twice, and strings with empty
\* segments or with a delimiter inside a segment.
UrlInputs ==
  {ScottUrl, SampleUrl}
    \cup {UrlVariant(d1, d2, d3, d4, d5) : d1 \in 0..2, d2 \in 0..2, d3 \in 0..2, d4 \in 0..2, d5 \in 0..2}
    \cup {<<"/", "@", ":", "/", "/">>,
          <<"u", ":", "x", "/", "p", "@", "h", ":", "1", "/", "s", "/", "i">>,
          <<"u", "/", "p", "@", "h", "/", "x", ":", "1", "/", "s", "/", "i">>,
          <<"u", "/", "p", "@", "h", ":", "1", "/", "s", ":", "x", "/", "i">>}

InitTagUrl ==
  /\ Url \in UrlInputs
  /\ disk = <<FileA, FileC>>
  /\ dbrow = ExampleRow
  /\ nrows = MaxRows
  /\ InitOra

\* Gather on every connection string of UrlInputs.
SpecTagUrl == InitTagUrl /\ [][NextOne]_vars

\* The records the generated statement files hold: names with a leading space or
\* "#", bodies with white space around them, a name that ends in ":", a body
\* that ends in ";" or starts with ":", and texts that are no name::body.
GenRecs ==
  {Rec(<<"a">>, <<"x">>), Rec(<<" ", "a">>, <<"\n", "y", " ">>), Rec(<<"#", "a">>, <<"x">>),
   Rec(<<"b">>, <<"\n", "y", " ">>), Rec(<<"a", ":">>, <<"x">>), Rec(<<"b">>, <<"x", ";">>),
   Rec(<<"a">>, <<":", "y">>),
   RawRec(<<" ">>), RawRec(<<"a">>), RawRec(<<"a", ":", ":", "b", ":", ":", "c">>),
   RawRec(<<":", ":", "x">>), RawRec(<<"a", ":", ":", " ">>)}

\* The lists of at most n generated records.
RecLists(n) == UNION {[1..k -> GenRecs] : k \in 0..n}

\* Two files that hold at most n records together.
GenDisks(n) ==
  UNION {{<<FileOf(SubSeq(l, 1, j)), FileOf(SubSeq(l, j + 1, Len(l)))>> : j \in 0..Len(l)} :
           l \in RecLists(n)}

InitReadfiles ==
  /\ Url = ScottUrl
  /\ disk \in GenDisks(MaxRecs)
  /\ dbrow = ExampleRow
  /\ nrows = MaxRows
  /\ InitOra

\* Gather up to the end of readfiles.
NextReadfiles == Call(1) \/ Lock(1) \/ Readfiles(1)

\* readfiles on every pair of generated files.
SpecReadfiles == InitReadfiles /\ [][NextReadfiles]_vars

Str_x == <<"x">>
Str_42 == <<"4", "2">>

\* The values a column may hold.
ColValues ==
  {VInt64(42), VFloat64(7), VString(<<>>), VString(Str_x), VBytes(<<"b">>), VBool(TRUE),
   VBool(FALSE), VOCINum(Str_42), VOCINum(Str_x), VNull, VTime}

Col_VALUE == <<"V", "A", "L", "U", "E">>
Col_NAME == <<"N", "A", "M", "E">>
Col_FLAG == <<"F", "L", "A", "G">>

\* Rows: the columns VALUE, NAME and FLAG with every value in NAME and FLAG; rows
\* of one column named like a tag Gather adds; a row whose two columns differ in
\* case only.
RowInputs ==
  {(Col_VALUE :> v1) @@ (Col_NAME :> v2) @@ (Col_FLAG :> v3) :
     v1 \in {VInt64(42), VNull}, v2 \in ColValues, v3 \in ColValues}
    \cup {(k :> v) : k \in {<<"F", "U", "N", "C">>, <<"O", "R", "A", "H", "O", "S", "T">>},
                     v \in {VString(Str_x), VInt64(42), VNull}}
    \cup {(Col_NAME :> VString(Str_x)) @@ (<<"n", "a", "m", "e">> :> VBytes(<<"b">>))}

\* "/@://": every segment empty.
EmptyUrl == <<"/", "@", ":", "/", "/">>

InitParseRow ==
  /\ Url \in {ScottUrl, EmptyUrl}
  /\ disk = <<FileA, FileC>>
  /\ dbrow \in RowInputs
  /\ nrows = MaxRows
  /\ InitOra

\* Gather on a database that returns the rows of RowInputs.
SpecParseRow == InitParseRow /\ [][NextOne]_vars

\* ------------------------------------------------------------- the claims

\* Caller c is between acquiring the lock and returning.
InGather(c) == pc[c] \notin {"idle", "lock"}

\* C1: at most one Gather invocation is between acquiring the lock and returning
\* at any time: the caller that is there holds the mutex, and no other caller has
\* a connection, goroutines or emitted rows of its own.
C1_MutualExclusion ==
  /\ \A c1, c2 \in Callers : InGather(c1) /\ InGather(c2) => c1 = c2
  /\ \A c \in Callers : InGather(c) => mutex = c
  /\ \A c \in Callers : ~InGather(c) => conn[c] = "none" /\ gor[c] = <<>> /\ acc[c] = <<>>

\* C1, witness: one caller's statements are running while another caller is
\* blocked in o.Lock().
C1_Witness ==
  \E c1, c2 \in Callers :
    /\ pc[c1] = "wait"
    /\ pc[c2] = "lock"
    /\ \E i \in DOMAIN gor[c1] : gor[c1][i].pc = "rows"

\* The instance of goroutine g failed: its query or a scan failed, or it timed out.
Failed(g) == g.sent = "timeout" \/ g.res # Nil

\* The error goroutine g, of a statement named tag, has put into errChan.
Recorded(g, tag) == IF g.sent = "timeout" THEN StmtError("timeout", u, tag) ELSE g.res

CountIn(seq, e) == Cardinality({k \in 1..Len(seq) : seq[k] = e})

\* C2: when Gather has run its N statement instances and K of them failed, what
\* it returns is nil iff K = 0 and else a combined error of exactly K entries, one
\* per failing instance; every row of each succeeding instance has been emitted.
C2_CombinedError ==
  \A c \in Callers :
    pc[c] = "close" =>
      LET g == gor[c]
          F == {i \in DOMAIN g : Failed(g[i])}
          E == {Recorded(g[i], i[1]) : i \in F}
      IN /\ DOMAIN g = InstanceSet(sqlmap)
         /\ (ret[c] = <<>>) <=> (F = {})
         /\ Len(ret[c]) = Cardinality(F)
         /\ \A k \in 1..Len(ret[c]) : ret[c][k] \in E
         /\ \A e \in E : CountIn(ret[c], e) = Cardinality({i \in F : Recorded(g[i], i[1]) = e})
         /\ \A i \in (DOMAIN g) \ F : g[i].n = Len(acc[c][i])

\* C2, witness: of two instances one failed and one succeeded with a row emitted.
C2_Witness ==
  \E c \in Callers :
    /\ pc[c] = "close"
    /\ Cardinality(DOMAIN gor[c]) = 2
    /\ Len(ret[c]) = 1
    /\ \E i \in DOMAIN gor[c] : ~Failed(gor[c][i]) /\ Len(acc[c][i]) = 1

\* C3: an instance whose gatherInfo was still unfinished when its deadline
\* expired has the timeout error recorded, never its own result.
C3_LateIsTimeout ==
  \A c \in Callers : \A i \in DOMAIN gor[c] :
    (gor[c][i].pc = "done" /\ gor[c][i].late) => gor[c][i].sent = "timeout"

\* C4: an invocation that waits for its statements can always go on: some
\* goroutine of it can take a step (an expired deadline lets the goroutine record
\* the timeout whatever its query does), or the wait is over; so it returns.
C4_NeverStuck ==
  \A c \in Callers :
    pc[c] = "wait" => ENABLED (Wait(c) \/ \E i \in AllInstances : GoroutineStep(c, i))


\* The files the latest readfiles call found.
LastFiles == loads[Len(loads)].files

SomeUnreadable(files) == \E k \in 1..Len(files) : ~files[k].ok

IsReadable(f) == f.ok

\* Caller c is past readfiles in its invocation.
PastReadfiles(c) == pc[c] \in {"open", "tagUrl", "spawn", "wait", "close", "unlock"}

C7_CatalogFromFiles ==
  /\ \A j, k \in 1..Len(loads) :
       loads[j].files = loads[k].files => loads[j].catalog = loads[k].catalog
  /\ \A k \in 1..Len(loads) :
       loads[k].catalog = ReadfilesMap(EmptyMap, loads[k].files)

\* C7, witness: the files changed between two invocations and the later catalog
\* has fewer statements under a name than the earlier one.
C7_Witness ==
  /\ Len(loads) = 2
  /\ loads[1].files # loads[2].files
  /\ \E k \in DOMAIN loads[1].catalog :
       /\ k \in DOMAIN loads[2].catalog
       /\ Len(loads[2].catalog[k]) < Len(loads[1].catalog[k])

\* A record is well-formed when it was written as name::body with a name and a
\* body that are not blank and hold no separator, and no separator arises where
\* they meet the separators written around them.
Occurs(s, sep) == \E i \in 1..(Len(s) - Len(sep) + 1) : SubSeq(s, i, i + Len(sep) - 1) = sep

WellFormedRec(r) ==
  /\ r.wf
  /\ TrimSpace(r.name) # <<>>
  /\ TrimSpace(r.body) # <<>>
  /\ ~Occurs(r.name, <<":", ":">>) /\ ~Occurs(r.name, <<";", ";">>)
  /\ ~Occurs(r.body, <<":", ":">>) /\ ~Occurs(r.body, <<";", ";">>)
  /\ r.name[Len(r.name)] # ":"
  /\ r.body[Len(r.body)] # ";"

\* The records of all files, in the order of the files and within each file.
AllRecs(files) == Concat([k \in 1..Len(files) |-> files[k].recs])

WellFormedFiles(files) ==
  /\ \A k \in 1..Len(files) : files[k].ok
  /\ \A k \in 1..Len(AllRecs(files)) : WellFormedRec(AllRecs(files)[k])

\* The trimmed bodies of the records of recs whose trimmed name is n, in order.
RECURSIVE BodiesOf(_, _)
BodiesOf(recs, n) ==
  IF recs = <<>> THEN <<>>
  ELSE (IF TrimSpace(Head(recs).name) = n THEN <<TrimSpace(Head(recs).body)>> ELSE <<>>)
         \o BodiesOf(Tail(recs), n)

ExpectedCatalog(recs) ==
  LET names == {TrimSpace(recs[k].name) : k \in 1..Len(recs)}
  IN [n \in {x \in names : x[1] # "#"} |-> BodiesOf(recs, n)]

\* C6: when every file is readable and holds well-formed records only, the
\* catalog after readfiles has exactly the trimmed names that do not start with
\* "#" as its keys, and each key has the trimmed bodies of all records of that
\* name, one per record, in the order of the files and of the records in them.
C6_CatalogOfWellFormed ==
  \A c \in Callers :
    (pc[c] = "open" /\ WellFormedFiles(disk)) => sqlmap = ExpectedCatalog(AllRecs(disk))

\* C6, witness: two files of one well-formed record each, whose names differ
\* before trimming, gave one key with the two bodies.
C6_Witness ==
  \E c \in Callers :
    /\ pc[c] = "open"
    /\ WellFormedFiles(disk)
    /\ Len(disk[1].recs) = 1
    /\ Len(disk[2].recs) = 1
    /\ disk[1].recs[1].name # disk[2].recs[1].name
    /\ \E k \in DOMAIN sqlmap : Len(sqlmap[k]) = 2 /\ sqlmap[k][1] # sqlmap[k][2]

CountCh(s, ch) == Cardinality({i \in 1..Len(s) : s[i] = ch})

\* The shape user/password@host:port/service/instance, told by counting the
\* delimiters: one "@", one "/" before it, one ":" after it, two "/" after that.
WellShaped(url) ==
  /\ CountCh(url, "@") = 1
  /\ LET a == CHOOSE i \in 1..Len(url) : url[i] = "@"
         before == SubSeq(url, 1, a - 1)
         after == SubSeq(url, a + 1, Len(url))
     IN /\ CountCh(before, "/") = 1
        /\ CountCh(after, ":") = 1
        /\ LET col == CHOOSE i \in 1..Len(after) : after[i] = ":"
           IN CountCh(SubSeq(after, col + 1, Len(after)), "/") = 2

JoinUrl(x) ==
  x.user \o <<"/">> \o x.passwd \o <<"@">> \o x.host \o <<":">> \o x.port \o <<"/">>
    \o x.service \o <<"/">> \o x.instance

Started(c) == pc[c] \in {"spawn", "wait", "close"}

Str_scott == <<"s", "c", "o", "t", "t">>
Str_tiger == <<"t", "i", "g", "e", "r">>
Str_10_0_0_5 == <<"1", "0", ".", "0", ".", "0", ".", "5">>
Str_1521 == <<"1", "5", "2", "1">>
Str_orcl == <<"o", "r", "c", "l">>
Str_orcl1 == <<"o", "r", "c", "l", "1">>

PlainRow(row) ==
  /\ \A c \in DOMAIN row : row[c].t # "OCINum"
  /\ \A c1, c2 \in DOMAIN row : ToLower(c1) = ToLower(c2) => c1 = c2
  /\ \A c \in DOMAIN row :
       ToLower(c) \notin {Str_func, Str_orahost, Str_oraport, Str_oraservice, Str_orainstance}

\* The tag value the mapping gives to a text, a byte sequence or a boolean.
ClaimedTag(v) ==
  CASE v.t = "string" -> (IF v.s = <<>> THEN Str_NULL ELSE v.s)
    [] v.t = "bytes" -> v.s
    [] v.t = "bool" -> (IF v.b THEN <<"1">> ELSE <<"0">>)

ColumnOf(row, k) == CHOOSE c \in DOMAIN row : ToLower(c) = k

ClaimedTags(row) ==
  [k \in {ToLower(c) : c \in {x \in DOMAIN row : row[x].t \in {"string", "bytes", "bool"}}} |->
     ClaimedTag(row[ColumnOf(row, k)])]

ClaimedFields(row) ==
  [k \in {ToLower(c) : c \in {x \in DOMAIN row : row[x].t \in {"int64", "float64"}}} |->
     [t |-> row[ColumnOf(row, k)].t, n |-> row[ColumnOf(row, k)].n]]

\* The identity tags: those of the four url segments that are not empty.
IdentityTags(x) ==
  LET all4 == (Str_orahost :> x.host) @@ (Str_oraport :> x.port)
                @@ (Str_oraservice :> x.service) @@ (Str_orainstance :> x.instance)
  IN [k \in {y \in DOMAIN all4 : all4[y] # <<>>} |-> all4[k]]

\* C9: every row emitted has the fields and the tags of the mapping: lower-cased
\* column names; text and bytes as tags ("" as "NULL"); integers and floats as
\* fields; a boolean as the tag "1" or "0"; nothing for null and unsupported
\* values; plus the non-empty identity tags and the statement name.
C9_ParseRowMapping ==
  \A c \in Callers : \A i \in DOMAIN acc[c] : \A k \in 1..Len(acc[c][i]) :
    PlainRow(dbrow) =>
      /\ acc[c][i][k].fields = ClaimedFields(RowAt(dbrow, k))
      /\ acc[c][i][k].tags = ClaimedTags(dbrow) @@ IdentityTags(u) @@ (Str_func :> i[1])

Str_localhost == <<"l", "o", "c", "a", "l", "h", "o", "s", "t">>
\* C10: with the url of the sample configuration, tagUrl does not end the
\* process and splits the url into host localhost, port 1521, service orcl.
C10_SampleUrlAccepted ==
  Url = SampleUrl =>
    /\ ~exited
    /\ u.set => u.host = Str_localhost /\ u.port = Str_1521 /\ u.service = Str_orcl

\* C11: in every invocation the aggregator has one slot per statement instance
\* of the catalog, the goroutines started are those instances (all of them once
\* the loops are over), every goroutine that is done has sent one outcome and no
\* other has sent any, the buffer holds one entry per sender and never more than
\* its capacity, a goroutine at its select finds room, and when the join is
\* over the buffer holds exactly one outcome per instance.
C11_OneOutcomePerInstance ==
  \A c \in Callers :
    Started(c) =>
      LET N == Cardinality(InstanceSet(sqlmap))
          g == gor[c]
          ch == errChan[c]
      IN /\ ch.cap = N
         /\ DOMAIN g \subseteq InstanceSet(sqlmap)
         /\ pc[c] # "spawn" => DOMAIN g = InstanceSet(sqlmap)
         /\ \A i \in DOMAIN g : (g[i].pc = "done") <=> (g[i].sent \in {"result", "timeout"})
         /\ \A i \in DOMAIN g : (g[i].pc # "done") <=> (g[i].sent = "none")
         /\ Len(ch.buf) = Cardinality({i \in DOMAIN g : g[i].sent # "none"})
         /\ Len(ch.buf) <= ch.cap
         /\ \A i \in DOMAIN g : g[i].pc = "select" => CanSend(ch)
         /\ pc[c] = "close" => Len(ch.buf) = N

\* C11, witness: the join of two instances is over, one sent the timeout error
\* and one its own result.
C11_Witness ==
  \E c \in Callers :
    /\ pc[c] = "close"
    /\ Len(errChan[c].buf) = 2
    /\ \E i, j \in DOMAIN gor[c] : gor[c][i].sent = "timeout" /\ gor[c][j].sent = "result"

\* C12: the connection is open exactly from sql.Open to the deferred Close;
\* goroutines exist only in an invocation that opened it; the aggregator is
\* closed only when every instance has been started and is done; the connection
\* is closed only after the aggregator, and the lock is still held then; and once
\* the aggregator or the connection is closed, or Gather has returned, no
\* goroutine of the invocation can take a step.
C12_JoinThenClose ==
  \A c \in Callers :
    /\ (conn[c] = "open") <=> (pc[c] \in {"tagUrl", "spawn", "wait", "close"})
    /\ gor[c] # <<>> => conn[c] # "none"
    /\ errChan[c].closed =>
         /\ pc[c] \in {"close", "unlock"}
         /\ DOMAIN gor[c] = InstanceSet(sqlmap)
         /\ \A i \in DOMAIN gor[c] : gor[c][i].pc = "done"
    /\ conn[c] = "closed" => pc[c] = "unlock" /\ errChan[c].closed /\ mutex = c
    /\ pc[c] = "close" => errChan[c].closed
    /\ (errChan[c].closed \/ conn[c] # "open") =>
         \A i \in AllInstances : ~ENABLED GoroutineStep(c, i)

\* C12, witness: two instances ran, one emitted a row, and the connection has
\* been closed after the aggregator.
C12_Witness ==
  \E c \in Callers :
    /\ pc[c] = "unlock"
    /\ conn[c] = "closed"
    /\ errChan[c].closed
    /\ Cardinality(DOMAIN gor[c]) = 2
    /\ \E i \in DOMAIN gor[c] : Len(acc[c][i]) = 1

\* The metric of the k-th row of the result of the statement named tag.
RowMetric(k, tag) == Metric(RowAt(dbrow, k), CHOOSE o \in Orders(dbrow) : TRUE, u, tag)

\* C13: at every moment the rows an instance has emitted are the first n rows
\* of the result, one metric per row, in the result's order; after a query
\* error no row is emitted and the outcome is the query error with host,
\* instance and statement name; after a scan error on row n + 1 exactly rows
\* 1..n are emitted and the outcome is the scan error; an instance that returns
\* nil has emitted every row of the result.
C13_RowsInOrder ==
  \A c \in Callers : \A i \in DOMAIN gor[c] :
    LET g == gor[c][i]
    IN /\ g.n <= nrows
       /\ acc[c][i] = [k \in 1..g.n |-> RowMetric(k, i[1])]
       /\ g.res # Nil =>
            /\ g.res.kind \in {"query", "scan"}
            /\ g.res = [kind |-> g.res.kind, host |-> u.host, instance |-> u.instance, tag |-> i[1]]
            /\ g.res.kind = "query" => g.n = 0 /\ acc[c][i] = <<>>
            /\ g.res.kind = "scan" => g.n < nrows
       /\ (g.pc \in {"select", "done"} /\ g.res = Nil) => g.n = nrows /\ Len(acc[c][i]) = nrows

\* C13, witness: the scan of the second row failed; the first row stays emitted
\* and the instance is done with the scan error.
C13_Witness ==
  \E c \in Callers : \E i \in DOMAIN gor[c] :
    /\ gor[c][i].pc = "done"
    /\ gor[c][i].res.kind = "scan"
    /\ gor[c][i].n = 1
    /\ acc[c][i] = <<RowMetric(1, i[1])>>
    /\ RowMetric(1, i[1]) # RowMetric(2, i[1])

\* The identity tags and the fields of o.u they are taken from.
IdentityOf(x) ==
  (Str_orahost :> x.host) @@ (Str_oraport :> x.port)
    @@ (Str_oraservice :> x.service) @@ (Str_orainstance :> x.instance)

\* The columns of row that parseRow turns into a tag named k.
TagColumns(row, k) ==
  {col \in DOMAIN row : ToLower(col) = k /\ row[col].t \in {"string", "bytes", "bool"}}

\* C14 as stated: every metric emitted is named "ora", has the tag func equal to
\* the statement's name, and has each identity tag equal to its field of o.u when
\* the field is not empty and absent when it is empty, whatever the row holds.
C14_IdentityTags ==
  \A c \in Callers : \A i \in DOMAIN acc[c] : \A k \in 1..Len(acc[c][i]) :
    LET m == acc[c][i][k]
    IN /\ m.name = Str_ora
       /\ Str_func \in DOMAIN m.tags /\ m.tags[Str_func] = i[1]
       /\ \A t \in DOMAIN IdentityOf(u) :
            IF IdentityOf(u)[t] # <<>>
              THEN t \in DOMAIN m.tags /\ m.tags[t] = IdentityOf(u)[t]
              ELSE t \notin DOMAIN m.tags

\* C14 as amended: as above, but an identity tag whose field is empty is absent
\* only if the row has no text, byte or boolean column of that name; if it has
\* one, the metric carries that column's value under the identity tag's name.
C14_IdentityTagsUnlessColumn ==
  \A c \in Callers : \A i \in DOMAIN acc[c] : \A k \in 1..Len(acc[c][i]) :
    LET m == acc[c][i][k]
    IN /\ m.name = Str_ora
       /\ Str_func \in DOMAIN m.tags /\ m.tags[Str_func] = i[1]
       /\ \A t \in DOMAIN IdentityOf(u) :
            IF IdentityOf(u)[t] # <<>>
              THEN t \in DOMAIN m.tags /\ m.tags[t] = IdentityOf(u)[t]
              ELSE /\ (t \in DOMAIN m.tags) <=> (TagColumns(dbrow, t) # {})
                   /\ \A col \in TagColumns(dbrow, t) :
                        dbrow[col].t \in {"string", "bytes"} =>
                          m.tags[t] = (IF dbrow[col].s = <<>> THEN Str_NULL ELSE dbrow[col].s)

\* C14, witness: a row whose only column is a text named ORAHOST was emitted
\* with the parsed host, not the column's value, under orahost.
C14_Witness ==
  \E c \in Callers : \E i \in DOMAIN acc[c] :
    /\ Len(acc[c][i]) = 1
    /\ DOMAIN dbrow = {<<"O", "R", "A", "H", "O", "S", "T">>}
    /\ dbrow[<<"O", "R", "A", "H", "O", "S", "T">>] = VString(Str_x)
    /\ u.host = Str_10_0_0_5
    /\ acc[c][i][1].tags[Str_orahost] = Str_10_0_0_5

\* C15: every metric emitted for a row has, for each ora.OCINum column, the
\* parsed float as a field when the column's text parses, and neither a field
\* nor a tag under the column's name when it does not.
C15_OCINumDropped ==
  \A c \in Callers : \A i \in DOMAIN acc[c] : \A k \in 1..Len(acc[c][i]) :
    \A col \in {x \in DOMAIN dbrow : dbrow[x].t = "OCINum"} :
      LET m == acc[c][i][k]
          key == ToLower(col)
      IN IF dbrow[col].s = Str_42
           THEN key \in DOMAIN m.fields /\ m.fields[key] = [t |-> "float64", n |-> 42]
           ELSE key \notin DOMAIN m.fields /\ key \notin DOMAIN m.tags

\* C16: whatever the files hold, the catalog after readfiles has no empty key,
\* no key that starts with "#", no empty entry and no body that is empty or has
\* white space around it; readfiles returns no error; and when every record is
\* either well-formed or one to skip, the catalog is the one of the well-formed
\* records alone.
C16_MalformedSkipped ==
  \A c \in Callers :
    pc[c] \notin {"idle", "lock", "readfiles"} =>
      /\ pc[c] = "open" /\ ret[c] = <<>>
      /\ \A k \in DOMAIN sqlmap :
           /\ k # <<>> /\ k[1] # "#"
           /\ sqlmap[k] # <<>>
           /\ \A j \in 1..Len(sqlmap[k]) :
                sqlmap[k][j] # <<>> /\ TrimSpace(sqlmap[k][j]) = sqlmap[k][j]
      /\ (\A j \in 1..Len(AllRecs(disk)) :
            ~AllRecs(disk)[j].wf \/ WellFormedRec(AllRecs(disk)[j]))
           => sqlmap = ExpectedCatalog(SelectSeq(AllRecs(disk), WellFormedRec))

\* C16, witness: a file holds a record to skip before a well-formed one, and
\* the catalog has the well-formed one alone.
C16_Witness ==
  \E c \in Callers :
    /\ pc[c] = "open"
    /\ Len(disk[1].recs) = 2
    /\ ~disk[1].recs[1].wf
    /\ WellFormedRec(disk[1].recs[2])
    /\ disk[2].recs = <<>>
    /\ DOMAIN sqlmap = {TrimSpace(disk[1].recs[2].name)}

C18_ReturnReleases ==
  /\ \A c \in Callers :
       /\ ~InGather(c) => mutex # c /\ conn[c] = "none"
       /\ pc[c] = "unlock" =>
            /\ conn[c] # "open"
            /\ mutex = c
            /\ ~exited => ENABLED Unlock(c)
            /\ conn[c] = "none" =>
                 /\ ret[c] # <<>>
                 /\ \A k \in 1..Len(ret[c]) : ret[c][k].kind \in {"read", "open"}
                 /\ gor[c] = <<>> /\ acc[c] = <<>>
            /\ conn[c] = "closed" => \A k \in 1..Len(ret[c]) : ret[c][k].kind \notin {"read", "open"}
  /\ (\A c \in Callers : ~InGather(c)) => mutex = 0
  /\ (~exited /\ mutex = 0) => \A c \in Callers : pc[c] = "lock" => ENABLED Lock(c)
  /\ exited => \E c \in Callers : pc[c] = "tagUrl" /\ mutex = c /\ conn[c] = "open"

\* C18, witness: a second invocation has run readfiles and is returning early
\* because sql.Open failed; the first one had returned and released the lock.
C18_Witness ==
  \E c \in Callers :
    /\ pc[c] = "unlock"
    /\ ret[c] = <<OpenError>>
    /\ conn[c] = "none"
    /\ Len(loads) = 2

====
